---- MODULE Spec2Model ----
(***************************************************************************)
(* Model of the A-B loop controller of the subtitle-loop content script    *)
(* (class LoopController and the media primitives seekTo/getCurrentTime).  *)
(* Times are whole seconds in 0..MaxTime.  A nullable field is modelled as *)
(* a sequence: <<>> is null, <<v>> is the value v.  A string is the       *)
(* sequence of its characters.                                             *)
(***************************************************************************)
EXTENDS Integers, Sequences, FiniteSets, TLC

\* Largest playback position / loop bound (seconds) that is explored.
MaxTime == 3

Times == 0..MaxTime

Null == <<>>
Some(v) == <<v>>
Val(x) == x[1]

\* Math.min / Math.max as used by setEnd and setLoop
Min(a, b) == IF a <= b THEN a ELSE b
Max(a, b) == IF a >= b THEN a ELSE b

VARIABLES
    startTime,      \* LoopController.startTime : number | null
    endTime,        \* LoopController.endTime : number | null
    isActive,       \* LoopController.isActive
    intervalId,     \* LoopController.intervalId : number | null
    onStateChange,  \* TRUE iff a state-change callback is registered
    timers,         \* ids of the intervals of this controller that the window still runs
    hasVideo,       \* getVideoPlayer() finds a <video> element
    currentTime,    \* video.currentTime of that element (0 while absent)
    op,             \* the call that produced this state: [name, args]
    seeks,          \* seekTo calls issued by the controller during that call
    notes,          \* snapshots delivered to the callback during that call
    ret,            \* value returned by the transcript function called last
    panelSegments,  \* SubtitlePanel.segments
    ui,             \* the page event that the panel handled last: [name, args]
    location,       \* the v parameter of a /watch URL, null on any other page
    column,         \* the secondary column (insertion point) is in the document
    navs,           \* navigation events so far
    initTimers,     \* pending setTimeout(initializePanel, 500)
    waiters,        \* pending waitForElement promises
    panel,          \* content script's `panel` is not null
    keyboardHandler, \* content script's `keyboardHandler` is not null
    container,      \* SubtitlePanel.container is not null
    attached,       \* panel containers in the document
    pendingLoop,    \* chrome.storage.local 'pendingLoop' : entry | null
    written,        \* entries written by the options page so far
    now,            \* Date.now(), in minutes
    gets,           \* answers of storage.get on their way to checkPendingLoop runs
    timeouts,       \* pending setTimeout callbacks of checkPendingLoop, in order
    applied,        \* how often each written entry was applied with setLoop
    leaked,         \* loops polled by controllers of dropped panel objects
    dbPhrases,      \* db.phrases: the stored phrases
    dbGroups,       \* db.groups: the stored groups
    dbWorks,        \* IndexedDB serves requests (otherwise every request rejects)
    isDatabaseAvailable, \* db module flag
    checking,       \* checkDatabaseAvailability() of the worker start is running
    handlers,       \* per message received: the position of its handler
    answers,        \* per message received: how often sendResponse was called
    sent,           \* the response sent last
    saveDialog,     \* SubtitlePanel.saveDialog : the dialog shown, or null
    saveBtn,        \* classes of the row's save button: sl-btn-saving, sl-btn-saved
    toast,          \* the toast shown last
    runs,           \* handleSave calls: the request each one awaits
    inbox,          \* responses on their way to the content script
    resets,         \* pending timers that remove sl-btn-saved
    savedPhrases    \* ids of SubtitlePanel.savedPhrases

vars == <<startTime, endTime, isActive, intervalId, onStateChange, timers,
          hasVideo, currentTime, op, seeks, notes, ret, panelSegments, ui,
          location, column, navs, initTimers, waiters, panel, keyboardHandler,
          container, attached, pendingLoop, written, now, gets, timeouts,
          applied, leaked, dbPhrases, dbGroups, dbWorks,
          isDatabaseAvailable, checking, handlers, answers, sent,
          saveDialog, saveBtn, toast, runs, inbox, resets, savedPhrases>>

dialogVars == <<saveDialog, saveBtn, toast, runs, inbox, resets, savedPhrases>>

backgroundVars == <<dbPhrases, dbGroups, dbWorks, isDatabaseAvailable,
                    checking, handlers, answers, sent>>

pageVars == <<startTime, endTime, isActive, intervalId, onStateChange, timers,
              hasVideo, currentTime, op, seeks, notes, ret, panelSegments, ui,
              location, column, navs, initTimers, waiters, panel,
              keyboardHandler, container, attached, pendingLoop, written, now,
              gets, timeouts, applied, leaked, dialogVars>>

contentVars == <<location, column, navs, initTimers, waiters, panel,
                 keyboardHandler, container, attached, pendingLoop, written,
                 now, gets, timeouts, applied, leaked>>

ctl == <<startTime, endTime, isActive, intervalId, onStateChange, timers>>

Call(name, args) == [name |-> name, args |-> args]

----------------------------------------------------------------------------
\* Media primitives

\* getCurrentTime(): video?.currentTime ?? 0
getCurrentTime == IF hasVideo THEN currentTime ELSE 0

\* seekTo(seconds): sets video.currentTime when a video element exists
seekTo(seconds) ==
    /\ currentTime' = IF hasVideo THEN seconds ELSE currentTime
    /\ seeks' = <<seconds>>

\* a step of the controller that does not call seekTo
NoSeek ==
    /\ currentTime' = currentTime
    /\ seeks' = <<>>

----------------------------------------------------------------------------
\* LoopController

\* getState(): the snapshot {isActive, startTime, endTime}
getState == [isActive |-> isActive, startTime |-> startTime, endTime |-> endTime]

\* notifyStateChange(): called last in every mutator, so it sees the new state
notifyStateChange_Before ==
    notes' = IF onStateChange THEN <<getState>> ELSE <<>>

notifyStateChange ==
    notes' = IF onStateChange THEN <<getState'>> ELSE <<>>

\* window.setInterval hands out an id that no live interval has
NewTimerId == CHOOSE i \in 1..(Cardinality(timers) + 1) : i \notin timers

\* startMonitoring(): no-op when an interval is already held
startMonitoring_NoGuard ==
    /\ intervalId' = Some(NewTimerId)
    /\ timers' = timers \cup {NewTimerId}

startMonitoring ==
    IF intervalId # Null
    THEN /\ intervalId' = intervalId
         /\ timers' = timers
    ELSE /\ intervalId' = Some(NewTimerId)
         /\ timers' = timers \cup {NewTimerId}

\* stopMonitoring(): clearInterval and forget the id
stopMonitoring ==
    IF intervalId # Null
    THEN /\ timers' = timers \ {Val(intervalId)}
         /\ intervalId' = Null
    ELSE /\ timers' = timers
         /\ intervalId' = intervalId

\* activate(): runs after the caller has assigned startTime' and endTime'
activate_NoMonitor ==
    IF startTime' = Null \/ endTime' = Null
    THEN /\ UNCHANGED <<isActive, intervalId, timers>>
         /\ NoSeek
         /\ notes' = <<>>
    ELSE /\ isActive' = TRUE
         /\ UNCHANGED <<intervalId, timers>>
         /\ seekTo(Val(startTime'))
         /\ notifyStateChange

activate_RollbackOnSeekFail ==
    IF startTime' = Null \/ endTime' = Null \/ ~hasVideo
    THEN /\ UNCHANGED <<isActive, intervalId, timers>>
         /\ NoSeek
         /\ notes' = <<>>
    ELSE /\ isActive' = TRUE
         /\ startMonitoring
         /\ seekTo(Val(startTime'))
         /\ notifyStateChange

activate ==
    IF startTime' = Null \/ endTime' = Null
    THEN /\ UNCHANGED <<isActive, intervalId, timers>>
         /\ NoSeek
         /\ notes' = <<>>
    ELSE /\ isActive' = TRUE
         /\ startMonitoring
         /\ seekTo(Val(startTime'))
         /\ notifyStateChange

setStart(time) ==
    /\ startTime' = Some(time)
    /\ UNCHANGED <<endTime, isActive, intervalId, timers, onStateChange, hasVideo>>
    /\ NoSeek
    /\ notifyStateChange
    /\ op' = Call("setStart", <<time>>)

setEnd_NoNormalize(time) ==
    /\ op' = Call("setEnd", <<time>>)
    /\ UNCHANGED <<onStateChange, hasVideo>>
    /\ IF startTime = Null
       THEN /\ UNCHANGED <<startTime, endTime, isActive, intervalId, timers>>
            /\ NoSeek
            /\ notes' = <<>>
       ELSE /\ startTime' = startTime
            /\ endTime' = Some(time)
            /\ activate

setEnd_NoGuard(time) ==
    /\ op' = Call("setEnd", <<time>>)
    /\ UNCHANGED <<onStateChange, hasVideo>>
    /\ LET cur == IF startTime = Null THEN time ELSE Val(startTime)
       IN  /\ startTime' = Some(Min(cur, time))
           /\ endTime' = Some(Max(cur, time))
           /\ activate

setEnd(time) ==
    /\ op' = Call("setEnd", <<time>>)
    /\ UNCHANGED <<onStateChange, hasVideo>>
    /\ IF startTime = Null
       THEN /\ UNCHANGED <<startTime, endTime, isActive, intervalId, timers>>
            /\ NoSeek
            /\ notes' = <<>>
       ELSE /\ startTime' = Some(Min(Val(startTime), time))
            /\ endTime' = Some(Max(Val(startTime), time))
            /\ activate

setLoop_NoNormalize(start, end) ==
    /\ op' = Call("setLoop", <<start, end>>)
    /\ UNCHANGED <<onStateChange, hasVideo>>
    /\ startTime' = Some(start)
    /\ endTime' = Some(end)
    /\ activate

setLoop(start, end) ==
    /\ op' = Call("setLoop", <<start, end>>)
    /\ UNCHANGED <<onStateChange, hasVideo>>
    /\ startTime' = Some(Min(start, end))
    /\ endTime' = Some(Max(start, end))
    /\ activate

clear_KeepActive ==
    /\ op' = Call("clear", <<>>)
    /\ UNCHANGED <<onStateChange, hasVideo, isActive>>
    /\ stopMonitoring
    /\ startTime' = Null
    /\ endTime' = Null
    /\ NoSeek
    /\ notifyStateChange

clear_KeepTimer ==
    /\ op' = Call("clear", <<>>)
    /\ UNCHANGED <<onStateChange, hasVideo, intervalId, timers>>
    /\ startTime' = Null
    /\ endTime' = Null
    /\ isActive' = FALSE
    /\ NoSeek
    /\ notifyStateChange

clear ==
    /\ op' = Call("clear", <<>>)
    /\ UNCHANGED <<onStateChange, hasVideo>>
    /\ stopMonitoring
    /\ startTime' = Null
    /\ endTime' = Null
    /\ isActive' = FALSE
    /\ NoSeek
    /\ notifyStateChange

destroy_KeepCallback ==
    /\ op' = Call("destroy", <<>>)
    /\ stopMonitoring
    /\ UNCHANGED <<startTime, endTime, isActive, hasVideo, onStateChange>>
    /\ NoSeek
    /\ notes' = <<>>

destroy ==
    /\ op' = Call("destroy", <<>>)
    /\ stopMonitoring
    /\ onStateChange' = FALSE
    /\ UNCHANGED <<startTime, endTime, isActive, hasVideo>>
    /\ NoSeek
    /\ notes' = <<>>

\* The interval callback installed by startMonitoring
Tick_Strict ==
    /\ timers # {}
    /\ op' = Call("tick", <<>>)
    /\ UNCHANGED <<ctl, hasVideo>>
    /\ notes' = <<>>
    /\ IF ~isActive \/ startTime = Null \/ endTime = Null
       THEN NoSeek
       ELSE IF getCurrentTime > Val(endTime)
            THEN seekTo(Val(startTime))
            ELSE NoSeek

Tick ==
    /\ timers # {}
    /\ op' = Call("tick", <<>>)
    /\ UNCHANGED <<ctl, hasVideo>>
    /\ notes' = <<>>
    /\ IF ~isActive \/ startTime = Null \/ endTime = Null
       THEN NoSeek
       ELSE IF getCurrentTime >= Val(endTime)
            THEN seekTo(Val(startTime))
            ELSE NoSeek

----------------------------------------------------------------------------
\* The host media element: playback, seeks made outside the controller, and
\* the element appearing or disappearing (getVideoPlayer's query result)

Env(name, args) ==
    /\ op' = Call(name, args)
    /\ UNCHANGED ctl
    /\ seeks' = <<>>
    /\ notes' = <<>>

Play ==
    /\ hasVideo
    /\ currentTime < MaxTime
    /\ currentTime' = currentTime + 1
    /\ hasVideo' = hasVideo
    /\ Env("play", <<>>)

ExternalSeek(p) ==
    /\ hasVideo
    /\ currentTime' = p
    /\ hasVideo' = hasVideo
    /\ Env("seek", <<p>>)

VideoRemoved ==
    /\ hasVideo
    /\ hasVideo' = FALSE
    /\ currentTime' = 0
    /\ Env("videoRemoved", <<>>)

VideoAdded ==
    /\ ~hasVideo
    /\ hasVideo' = TRUE
    /\ currentTime' = 0
    /\ Env("videoAdded", <<>>)

----------------------------------------------------------------------------
\* Transcript helpers (transcript.ts).  Numbers that may carry a fraction
\* (playback positions given to formatTimestamp) are counted in units of
\* 1/Res second.

\* Units per second of a fractional number.
Res == 2

\* Largest whole number of seconds that formatTimestamp is applied to
\* exhaustively.
MaxSeconds == 3725

\* Longest timestamp text that parseTimestamp is applied to exhaustively.
MaxLen == 5

Digits == <<"0", "1", "2", "3", "4", "5", "6", "7", "8", "9">>
IsDigit(c) == \E i \in 1..10 : Digits[i] = c
DigitVal(c) == (CHOOSE i \in 1..10 : Digits[i] = c) - 1
IsSpace(c) == c = " "

\* Math.floor of a number given in units of 1/Res
mathFloor(x) == x \div Res

\* Number.prototype.toString of an integer
RECURSIVE toString(_)
toString(n) ==
    IF n < 0 THEN <<"-">> \o toString(-n)
    ELSE IF n < 10 THEN <<Digits[n + 1]>>
    ELSE toString(n \div 10) \o <<Digits[(n % 10) + 1]>>

\* String.prototype.padStart(targetLength, padChar)
RECURSIVE padStart(_, _, _)
padStart(str, targetLength, padChar) ==
    IF Len(str) >= targetLength THEN str
    ELSE padStart(<<padChar>> \o str, targetLength, padChar)

\* String.prototype.trim
RECURSIVE trimStart(_)
trimStart(str) ==
    IF str # <<>> /\ IsSpace(Head(str)) THEN trimStart(Tail(str)) ELSE str

RECURSIVE trimEnd(_)
trimEnd(str) ==
    IF str # <<>> /\ IsSpace(str[Len(str)])
    THEN trimEnd(SubSeq(str, 1, Len(str) - 1))
    ELSE str

trim(str) == trimEnd(trimStart(str))

\* String.prototype.split(':'): always at least one component
RECURSIVE split(_)
split(str) ==
    IF \A i \in 1..Len(str) : str[i] # ":"
    THEN <<str>>
    ELSE LET k == CHOOSE i \in 1..Len(str) :
                      /\ str[i] = ":"
                      /\ \A j \in 1..(i - 1) : str[j] # ":"
         IN  <<SubSeq(str, 1, k - 1)>> \o split(SubSeq(str, k + 1, Len(str)))

\* value of the longest prefix of decimal digits, read left to right
RECURSIVE digitsPrefix(_, _)
digitsPrefix(str, acc) ==
    IF str # <<>> /\ IsDigit(Head(str))
    THEN digitsPrefix(Tail(str), 10 * acc + DigitVal(Head(str)))
    ELSE acc

\* parseInt(p, 10): leading white space, an optional sign, then the longest
\* run of digits; NaN (Null) when there is no digit at that place
parseInt(p) ==
    LET t == trimStart(p)
        signed == t # <<>> /\ Head(t) \in {"-", "+"}
        body == IF signed THEN Tail(t) ELSE t
    IN  IF body = <<>> \/ ~IsDigit(Head(body))
        THEN Null
        ELSE IF signed /\ Head(t) = "-"
             THEN Some(0 - digitsPrefix(body, 0))
             ELSE Some(digitsPrefix(body, 0))

parseTimestamp(timeStr) ==
    LET cleaned == trim(timeStr)
        parts == [i \in 1..Len(split(cleaned)) |-> parseInt(split(cleaned)[i])]
    IN  IF \E i \in 1..Len(parts) : parts[i] = Null
        THEN 0
        ELSE IF Len(parts) = 2
             THEN Val(parts[1]) * 60 + Val(parts[2])
             ELSE IF Len(parts) = 3
                  THEN Val(parts[1]) * 3600 + Val(parts[2]) * 60 + Val(parts[3])
                  ELSE 0

\* formatTimestamp(seconds), seconds >= 0 in units of 1/Res
formatTimestamp_NoHours(seconds) ==
    LET totalSeconds == mathFloor(seconds)
        minutes == (totalSeconds % 3600) \div 60
        secs == totalSeconds % 60
    IN  toString(minutes) \o <<":">> \o padStart(toString(secs), 2, "0")

formatTimestamp_NoPad(seconds) ==
    LET totalSeconds == mathFloor(seconds)
        hours == totalSeconds \div 3600
        minutes == (totalSeconds % 3600) \div 60
        secs == totalSeconds % 60
    IN  IF hours > 0
        THEN toString(hours) \o <<":">> \o toString(minutes)
                 \o <<":">> \o toString(secs)
        ELSE toString(minutes) \o <<":">> \o toString(secs)

formatTimestamp(seconds) ==
    LET totalSeconds == mathFloor(seconds)
        hours == totalSeconds \div 3600
        minutes == (totalSeconds % 3600) \div 60
        secs == totalSeconds % 60
    IN  IF hours > 0
        THEN toString(hours) \o <<":">> \o padStart(toString(minutes), 2, "0")
                 \o <<":">> \o padStart(toString(secs), 2, "0")
        ELSE toString(minutes) \o <<":">> \o padStart(toString(secs), 2, "0")

\* extractTranscriptSegments(): elements is the list of segment elements
\* found in the page; each has an optional timestamp child and an optional
\* text child, given by their textContent.  The forEach index counts every
\* element, also the skipped ones.
RECURSIVE extractFrom(_, _)
extractFrom(elements, index) ==
    IF index >= Len(elements) THEN <<>>
    ELSE LET element == elements[index + 1]
             timeStr == IF trim(Val(element.timestampEl)) = <<>>
                        THEN <<"0", ":", "0", "0">>
                        ELSE trim(Val(element.timestampEl))
         IN  IF element.timestampEl = Null \/ element.textEl = Null
             THEN extractFrom(elements, index + 1)
             ELSE <<[index |-> index,
                     startTime |-> parseTimestamp(timeStr),
                     text |-> trim(Val(element.textEl))]>>
                  \o extractFrom(elements, index + 1)

extractTranscriptSegments(elements) == extractFrom(elements, 0)

\* findSegmentAtTime: the loop over i, from position i on
RECURSIVE findFrom_NoLast(_, _, _)
findFrom_NoLast(segments, t, i) ==
    IF i > Len(segments) THEN Null
    ELSE IF /\ t >= segments[i].startTime
            /\ i < Len(segments)
            /\ t < segments[i + 1].startTime
         THEN Some(segments[i])
         ELSE findFrom_NoLast(segments, t, i + 1)

RECURSIVE findFrom(_, _, _)
findFrom(segments, t, i) ==
    IF i > Len(segments) THEN Null
    ELSE IF /\ t >= segments[i].startTime
            /\ (i < Len(segments) => t < segments[i + 1].startTime)
         THEN Some(segments[i])
         ELSE findFrom(segments, t, i + 1)

findSegmentAtTime(segments, t) == findFrom(segments, t, 1)

\* Array.prototype.join(' ') of a list of strings
RECURSIVE join(_)
join(strs) ==
    IF strs = <<>> THEN <<>>
    ELSE IF Len(strs) = 1 THEN strs[1]
    ELSE strs[1] \o <<" ">> \o join(Tail(strs))

getTextForRange_Inclusive(segments, start, end) ==
    LET InRange(seg) == seg.startTime >= start /\ seg.startTime <= end
        relevantSegments == SelectSeq(segments, InRange)
    IN  join([i \in 1..Len(relevantSegments) |-> relevantSegments[i].text])

getTextForRange(segments, start, end) ==
    LET InRange(seg) == seg.startTime >= start /\ seg.startTime < end
        relevantSegments == SelectSeq(segments, InRange)
    IN  join([i \in 1..Len(relevantSegments) |-> relevantSegments[i].text])

\* A call of a transcript function: op holds the call, ret is null until the
\* function has returned and then holds Some(value); nothing else moves
Returns(name, value) ==
    /\ op.name = name
    /\ ret = Null
    /\ ret' = Some(value)
    /\ UNCHANGED <<ctl, hasVideo, currentTime, op, seeks, notes, panelSegments, ui,
                   contentVars, backgroundVars, dialogVars>>

Returned(name) == op.name = name /\ ret # Null

\* whole seconds given to the formatTimestamp round trip: every value up to
\* MaxSeconds and some around larger hour counts
WholeSeconds ==
    (0..MaxSeconds) \cup
    { h * 3600 + r : h \in {9, 10, 99, 100}, r \in {0, 59, 60, 3599} }

\* numbers given to formatTimestamp: the whole seconds and the fractions
\* above each of them
FractionalSeconds == { s * Res + f : s \in WholeSeconds, f \in 0..(Res - 1) }

\* characters of the timestamp texts given to parseTimestamp
Alphabet == {"0", "1", "5", ":", "-", "x", " "}

\* every text of at most MaxLen characters, and every rendered timestamp
TimestampTexts ==
    UNION { [1..n -> Alphabet] : n \in 0..MaxLen }
    \cup { formatTimestamp(s * Res) : s \in WholeSeconds }

CallParseTimestamp ==
    Returns("parseTimestamp", parseTimestamp(op.args[1]))

\* Longest segment list that is explored.
MaxSegs == 3

\* subtitle texts
Texts == {<<>>, <<"a">>}

\* every list of at most MaxSegs segments, in any order of start times
SegmentLists ==
    UNION { { [i \in 1..n |-> [index |-> i - 1,
                               startTime |-> f[i][1],
                               text |-> f[i][2]]] :
              f \in [1..n -> Times \X Texts] } : n \in 0..MaxSegs }

\* query times, from below the first second to above the last
QueryTimes == (0 - 1)..(MaxTime + 1)

\* segment elements as found in the page: the timestamp child is missing,
\* empty, unreadable, or one the page rendered for a time in Times
RawTimestamps ==
    {Null, Some(<<>>), Some(<<"x">>)}
    \cup { Some(formatTimestamp(t * Res)) : t \in Times }

RawTexts == {Null, Some(<<>>), Some(<<"a">>)}

Readable(ts) == ts \notin {Null, Some(<<>>), Some(<<"x">>)}

\* the page lists the segments in playback order: the timestamps it
\* rendered ascend
RawLists ==
    UNION { { e \in [1..n -> [timestampEl : RawTimestamps, textEl : RawTexts]] :
                \A i, j \in 1..n :
                    (i < j /\ Readable(e[i].timestampEl)
                           /\ Readable(e[j].timestampEl)) =>
                        parseTimestamp(Val(e[i].timestampEl))
                            <= parseTimestamp(Val(e[j].timestampEl)) } :
            n \in 0..MaxSegs }

CallExtractTranscriptSegments ==
    Returns("extractTranscriptSegments", extractTranscriptSegments(op.args[1]))

CallFindSegmentAtTime ==
    Returns("findSegmentAtTime", findSegmentAtTime(op.args[1], op.args[2]))

CallGetTextForRange ==
    Returns("getTextForRange",
            getTextForRange(op.args[1], op.args[2], op.args[3]))

CallFormatTimestamp ==
    Returns("formatTimestamp", formatTimestamp(op.args[1]))

CallRoundTrip ==
    Returns("roundTrip", parseTimestamp(formatTimestamp(op.args[1] * Res)))

----------------------------------------------------------------------------
\* The background service worker (background/index.ts) and the database
\* module (db): messages are handled concurrently, every await on the
\* database is a point where another handler can run.  An optional value
\* is a sequence: <<>> is undefined, <<v>> is the value v.

\* Messages that are received.
MaxMessages == 2

Undefined == <<>>
Defined(v) == <<v>>

\* generateId() of the handler of message m
NewId(m) == m + 2

\* the phrases and groups stored before the worker starts
StoredPhrases ==
    { [id |-> 1, videoId |-> "a", groupId |-> Some(1), createdAt |-> 1],
      [id |-> 2, videoId |-> "b", groupId |-> Null, createdAt |-> 2] }

StoredGroups == { [id |-> 1, order |-> 0] }

\* the message types of the extension, and one that is none of them
MessageTypes ==
    {"DB_STATUS", "SAVE_PHRASE", "GET_PHRASES", "UPDATE_PHRASE",
     "DELETE_PHRASE", "GET_GROUPS", "CREATE_GROUP", "UPDATE_GROUP",
     "DELETE_GROUP", "GET_STATS"}

\* GetPhrasesPayload: groupId is undefined, null or a group id; videoId is
\* undefined or a video id; limit and offset are undefined or 1
GetPhrasesPayloads ==
    [groupId : {Undefined, Defined(Null), Defined(Some(1))},
     videoId : {Undefined, Defined("a")},
     limit : {Undefined},
     offset : {Undefined}]
    \cup
    [groupId : {Undefined}, videoId : {Undefined},
     limit : {Undefined, Defined(1)}, offset : {Undefined, Defined(1)}]

\* the messages that are explored
Messages ==
    { [type |-> t, payload |-> Undefined] :
        t \in {"DB_STATUS", "GET_GROUPS", "GET_STATS", "GET_PHRASES",
               "UPDATE_PHRASE", "PING"} }
    \cup { [type |-> "SAVE_PHRASE",
            payload |-> Defined([videoId |-> "a", groupId |-> g])] :
             g \in {Undefined, Defined(1)} }
    \cup { [type |-> "GET_PHRASES", payload |-> Defined(f)] :
             f \in GetPhrasesPayloads }
    \cup { [type |-> "UPDATE_PHRASE",
            payload |-> Defined([id |-> 2, updates |-> [groupId |-> g]])] :
             g \in {Null, Some(1)} }
    \cup { [type |-> t, payload |-> Defined([id |-> 1])] :
             t \in {"DELETE_PHRASE", "UPDATE_GROUP", "DELETE_GROUP"} }
    \cup { [type |-> "CREATE_GROUP", payload |-> Defined([name |-> "n"])] }

\* the values of the worker's variables while no worker runs
NoBackground ==
    /\ dbPhrases = {}
    /\ dbGroups = {}
    /\ dbWorks = TRUE
    /\ isDatabaseAvailable = TRUE
    /\ checking = FALSE
    /\ handlers = <<>>
    /\ answers = <<>>
    /\ sent = Null

\* the values of the dialog's variables while no dialog was opened
NoDialog ==
    /\ saveDialog = Null
    /\ saveBtn = {}
    /\ toast = ""
    /\ runs = <<>>
    /\ inbox = <<>>
    /\ resets = 0
    /\ savedPhrases = {}

\* the phrases sorted by createdAt, newest first
RECURSIVE sortByCreatedAtReverse(_)
sortByCreatedAtReverse(S) ==
    IF S = {} THEN <<>>
    ELSE LET newest == CHOOSE x \in S : \A y \in S : y.createdAt <= x.createdAt
         IN  <<newest>> \o sortByCreatedAtReverse(S \ {newest})

\* the groups sorted by order, then by id
RECURSIVE orderByOrder(_)
orderByOrder(S) ==
    IF S = {} THEN <<>>
    ELSE LET first == CHOOSE x \in S : \A y \in S :
                          \/ x.order < y.order
                          \/ (x.order = y.order /\ x.id <= y.id)
         IN  <<first>> \o orderByOrder(S \ {first})

\* Array.prototype.splice as used by getPhrases
DropFirst(seq, n) == SubSeq(seq, Min(n, Len(seq)) + 1, Len(seq))
KeepFirst(seq, n) == SubSeq(seq, 1, Min(n, Len(seq)))

\* getPhrases(filters) on the stored phrases
getPhrases(filters) ==
    LET f == IF filters = Undefined
             THEN [groupId |-> Undefined, videoId |-> Undefined,
                   limit |-> Undefined, offset |-> Undefined]
             ELSE Val(filters)
        byGroup == IF f.groupId = Undefined
                   THEN dbPhrases
                   ELSE IF Val(f.groupId) = Null
                        THEN dbPhrases
                        ELSE { p \in dbPhrases : p.groupId = Val(f.groupId) }
        query == IF f.videoId # Undefined
                 THEN { p \in dbPhrases : p.videoId = Val(f.videoId) }
                 ELSE byGroup
        phrases == sortByCreatedAtReverse(query)
        afterOffset == IF f.offset # Undefined /\ Val(f.offset) # 0
                       THEN DropFirst(phrases, Val(f.offset))
                       ELSE phrases
    IN  IF f.limit # Undefined /\ Val(f.limit) # 0
        THEN KeepFirst(afterOffset, Val(f.limit))
        ELSE afterOffset

\* a handler that has sent its response
Done == [type |-> "", payload |-> Undefined, at |-> "done", snap |-> {}]

\* the first database request of the handler of each message type
FirstAwait(type) ==
    CASE type = "SAVE_PHRASE" -> "phrases.add"
      [] type = "GET_PHRASES" -> "phrases.sortBy"
      [] type = "UPDATE_PHRASE" -> "phrases.update"
      [] type = "DELETE_PHRASE" -> "phrases.delete"
      [] type = "GET_GROUPS" -> "groups.toArray"
      [] type = "CREATE_GROUP" -> "groups.last"
      [] type = "UPDATE_GROUP" -> "groups.update"
      [] type = "DELETE_GROUP" -> "phrases.where"
      [] type = "GET_STATS" -> "phrases.count"

\* sendResponse(response) for message m: the listener's then or catch
sendResponse(m, response) ==
    /\ answers' = [answers EXCEPT ![m] = @ + 1]
    /\ sent' = Some([to |-> m] @@ response)

Success(type, data) ==
    [type |-> type, success |-> TRUE, data |-> data, error |-> Undefined]

Failure(type, error) ==
    [type |-> type, success |-> FALSE, data |-> Undefined,
     error |-> Defined(error)]

\* The onMessage listener up to the first await of the handler: unknown
\* types and DB_STATUS are answered at once, savePhrase throws at once when
\* the database is flagged unavailable, and handlers that destructure the
\* payload throw at once when it is undefined
Receive(message) ==
    LET m == Len(handlers) + 1
        type == message.type
        answer(response) ==
            /\ handlers' = Append(handlers, Done)
            /\ answers' = Append(answers, 1)
            /\ sent' = Some([to |-> m] @@ response)
    IN  /\ UNCHANGED <<dbPhrases, dbGroups, dbWorks, isDatabaseAvailable,
                       checking>>
        /\ IF type \notin MessageTypes
           THEN answer(Failure(type, "Unknown message type"))
           ELSE IF type = "DB_STATUS"
           THEN answer(Success(type, [isAvailable |-> isDatabaseAvailable]))
           ELSE IF type = "SAVE_PHRASE" /\ ~isDatabaseAvailable
           THEN answer(Failure(type, "Database is not available"))
           ELSE IF type = "UPDATE_PHRASE" /\ message.payload = Undefined
           THEN answer(Failure(type, "TypeError"))
           ELSE /\ handlers' = Append(handlers,
                                      [type |-> type,
                                       payload |-> message.payload,
                                       at |-> FirstAwait(type),
                                       snap |-> {}])
                /\ answers' = Append(answers, 0)
                /\ sent' = sent

\* the handler of message m goes on to its next await
Await(m, at, snap) ==
    /\ handlers' = [handlers EXCEPT ![m] = [@ EXCEPT !.at = at, !.snap = snap]]
    /\ UNCHANGED <<answers, sent>>

\* the handler of message m returns
Return_NoResponse(m, response) ==
    /\ handlers' = [handlers EXCEPT ![m] = Done]
    /\ UNCHANGED <<answers, sent>>

Return(m, response) ==
    /\ handlers' = [handlers EXCEPT ![m] = Done]
    /\ sendResponse(m, response)

\* deleteGroup's transaction: ungroup the phrases read before, delete the group
deleteGroupTransaction(id, phrasesInGroup) ==
    /\ dbPhrases' = { IF p.id \in phrasesInGroup
                      THEN [p EXCEPT !.groupId = Null] ELSE p :
                      p \in dbPhrases }
    /\ dbGroups' = { g \in dbGroups : g.id # id }

\* The database answers the request that the handler of message m awaits,
\* and the handler runs up to its next await or to its return
Resume(m) ==
    LET h == handlers[m]
        type == h.type
        payload == Val(h.payload)
    IN  /\ h.at # "done"
        /\ UNCHANGED <<dbWorks, isDatabaseAvailable, checking>>
        /\ IF ~dbWorks
           THEN /\ Return(m, Failure(type, "DatabaseClosedError"))
                /\ UNCHANGED <<dbPhrases, dbGroups>>
           ELSE CASE h.at = "phrases.add" ->
                       LET phrase == [id |-> NewId(m),
                                      videoId |-> payload.videoId,
                                      groupId |->
                                          IF payload.groupId = Undefined
                                          THEN Null
                                          ELSE Some(Val(payload.groupId)),
                                      createdAt |-> NewId(m)]
                       IN  /\ dbPhrases' = dbPhrases \cup {phrase}
                           /\ dbGroups' = dbGroups
                           /\ Return(m, Success(type, phrase))
                  [] h.at = "phrases.sortBy" ->
                       /\ UNCHANGED <<dbPhrases, dbGroups>>
                       /\ Return(m, Success(type, getPhrases(h.payload)))
                  [] h.at = "phrases.update" ->
                       /\ dbPhrases' =
                              { IF p.id = payload.id
                                THEN [p EXCEPT !.groupId =
                                          payload.updates.groupId]
                                ELSE p : p \in dbPhrases }
                       /\ dbGroups' = dbGroups
                       /\ Return(m, Success(type, Undefined))
                  [] h.at = "phrases.delete" ->
                       /\ dbPhrases' = { p \in dbPhrases : p.id # payload.id }
                       /\ dbGroups' = dbGroups
                       /\ Return(m, Success(type, Undefined))
                  [] h.at = "groups.toArray" ->
                       /\ UNCHANGED <<dbPhrases, dbGroups>>
                       /\ Return(m, Success(type, orderByOrder(dbGroups)))
                  [] h.at = "groups.last" ->
                       /\ UNCHANGED <<dbPhrases, dbGroups>>
                       /\ Await(m, "groups.add",
                                IF dbGroups = {} THEN 0
                                ELSE orderByOrder(dbGroups)[
                                         Cardinality(dbGroups)].order + 1)
                  [] h.at = "groups.add" ->
                       /\ dbPhrases' = dbPhrases
                       /\ dbGroups' = dbGroups \cup
                                         {[id |-> NewId(m), order |-> h.snap]}
                       /\ Return(m, Success(type, [id |-> NewId(m),
                                                   order |-> h.snap]))
                  [] h.at = "groups.update" ->
                       /\ UNCHANGED <<dbPhrases, dbGroups>>
                       /\ Return(m, Success(type, Undefined))
                  [] h.at = "phrases.where" ->
                       /\ UNCHANGED <<dbPhrases, dbGroups>>
                       /\ Await(m, "transaction",
                                { p.id : p \in { q \in dbPhrases :
                                           q.groupId = Some(payload.id) } })
                  [] h.at = "transaction" ->
                       /\ deleteGroupTransaction(payload.id, h.snap)
                       /\ Return(m, Success(type, Undefined))
                  [] h.at = "phrases.count" ->
                       /\ UNCHANGED <<dbPhrases, dbGroups>>
                       /\ Await(m, "groups.count",
                                [totalPhrases |-> Cardinality(dbPhrases)])
                  [] h.at = "groups.count" ->
                       /\ UNCHANGED <<dbPhrases, dbGroups>>
                       /\ Await(m, "phrases.toArray",
                                [totalPhrases |-> h.snap.totalPhrases,
                                 totalGroups |-> Cardinality(dbGroups)])
                  [] h.at = "phrases.toArray" ->
                       /\ UNCHANGED <<dbPhrases, dbGroups>>
                       /\ Return(m, Success(type,
                              [totalPhrases |-> h.snap.totalPhrases,
                               totalGroups |-> h.snap.totalGroups,
                               grouped |-> Cardinality(
                                  { p \in dbPhrases : p.groupId # Null })]))

\* checkDatabaseAvailability() of the worker start finishes
CheckCompletes ==
    /\ checking
    /\ checking' = FALSE
    /\ isDatabaseAvailable' = dbWorks
    /\ UNCHANGED <<dbPhrases, dbGroups, dbWorks, handlers, answers, sent>>

----------------------------------------------------------------------------
\* The content script (content/index.ts) and the panel's life cycle: page
\* navigation, the delayed initializePanel calls, waitForElement, panel
\* creation and destruction, and the pending loop handed over by the
\* options page.  startTime .. timers describe the LoopController of the
\* SubtitlePanel object constructed last; `panel` tells whether the content
\* script still refers to that object.

\* Navigation events that are explored.
MaxNav == 2

\* Entries the options page writes.
MaxEntries == 2

\* checkPendingLoop: an entry is applied while younger than 5 minutes
PendingMaxAge == 5

\* the clock readings that are explored, in minutes: the start, one minute
\* before the age limit, and the age limit
ClockReadings == {0, PendingMaxAge - 1, PendingMaxAge}

VideoIds == {"a", "b"}

\* window.location: a /watch page with a v parameter, or any other page
Locations == {Null} \cup { Some(v) : v \in VideoIds }

\* isVideoPage()
isVideoPage == location # Null

\* the loops of the saved phrases the options page can play
SavedLoops == { [videoId |-> v, startTime |-> 1, endTime |-> 2] : v \in VideoIds }

\* the values of the content script's variables while no content script runs
NoContentScript ==
    /\ location = Null
    /\ column = FALSE
    /\ navs = 0
    /\ initTimers = 0
    /\ waiters = 0
    /\ panel = FALSE
    /\ keyboardHandler = FALSE
    /\ container = FALSE
    /\ attached = 0
    /\ pendingLoop = Null
    /\ written = 0
    /\ now = 0
    /\ gets = <<>>
    /\ timeouts = <<>>
    /\ applied = [n \in 1..MaxEntries |-> 0]
    /\ leaked = {}

\* a step of the content script that calls no method of the controller
ContentStep ==
    /\ Env("page", <<>>)
    /\ UNCHANGED <<hasVideo, currentTime, ret, ui>>

\* SubtitlePanel.destroy(): the controller is destroyed, the container is
\* removed from the document, the segments are dropped
panelDestroy ==
    /\ destroy
    /\ container' = FALSE
    /\ attached' = IF container THEN attached - 1 ELSE attached
    /\ panelSegments' = <<>>

\* pending work of a panel object that the content script has dropped
Disown(work) == [i \in 1..Len(work) |-> [work[i] EXCEPT !.own = FALSE]]

\* The then-callback of initializePanel, run for k waitForElement promises
\* that resolve together: `new SubtitlePanel()` if panel is null, then
\* panel.create() (destroy, a new LoopController, a new container), the
\* keyboard handler, and checkPendingLoop up to its first await: the
\* storage answers its get with the entry stored at that moment.
thenCallback(k) ==
    /\ startTime' = Null
    /\ endTime' = Null
    /\ isActive' = FALSE
    /\ intervalId' = Null
    /\ onStateChange' = TRUE
    /\ timers' = {}
    /\ leaked' = IF ~panel /\ timers # {}
                 THEN leaked \cup {<<Val(startTime), Val(endTime)>>}
                 ELSE leaked
    /\ op' = Call("new", <<>>)
    /\ seeks' = <<>>
    /\ notes' = <<>>
    /\ UNCHANGED <<hasVideo, currentTime, ret, ui>>
    /\ panel' = TRUE
    /\ keyboardHandler' = TRUE
    /\ container' = TRUE
    /\ attached' = (IF panel /\ container THEN attached - 1 ELSE attached) + 1
    /\ panelSegments' = <<>>
    /\ gets' = (IF panel THEN gets ELSE Disown(gets))
                \o [i \in 1..k |-> [own |-> TRUE, result |-> pendingLoop]]
    /\ timeouts' = IF panel THEN timeouts ELSE Disown(timeouts)

\* initializePanel(): off a video page the panel and the keyboard handler
\* are destroyed and dropped; on a video page it waits for the column, and
\* the then-callback runs at once when the column is there already
initializePanel ==
    IF ~isVideoPage
    THEN /\ IF panel
            THEN panelDestroy
            ELSE /\ Env("page", <<>>)
                 /\ UNCHANGED <<hasVideo, currentTime, container, attached,
                                panelSegments>>
         /\ panel' = FALSE
         /\ keyboardHandler' = FALSE
         /\ UNCHANGED <<waiters, gets, timeouts, leaked, ret, ui>>
    ELSE IF column
         THEN thenCallback(1) /\ UNCHANGED waiters
         ELSE /\ waiters' = waiters + 1
              /\ ContentStep
              /\ UNCHANGED <<panel, keyboardHandler, container, attached,
                             panelSegments, gets, timeouts, leaked>>

\* a setTimeout(initializePanel, 500) of a navigation event fires
InitTimerFires ==
    /\ initTimers > 0
    /\ initTimers' = initTimers - 1
    /\ initializePanel
    /\ UNCHANGED <<location, column, navs, pendingLoop, written, now, applied>>

\* The user navigates: the URL changes, and yt-navigate-finish or popstate
\* is dispatched
Navigate(to) ==
    /\ navs < MaxNav
    /\ navs' = navs + 1
    /\ location' = to
    /\ initTimers' = initTimers + 1
    /\ ContentStep
    /\ UNCHANGED <<column, waiters, panel, keyboardHandler, container,
                   attached, pendingLoop, written, now, gets, timeouts,
                   applied, leaked, panelSegments>>

\* The page inserts the secondary column: the MutationObserver of every
\* pending waitForElement resolves its promise
ColumnAppears ==
    /\ ~column
    /\ column' = TRUE
    /\ waiters' = 0
    /\ IF waiters > 0
       THEN thenCallback(waiters)
       ELSE /\ ContentStep
            /\ UNCHANGED <<panel, keyboardHandler, container, attached,
                           panelSegments, gets, timeouts, leaked>>
    /\ UNCHANGED <<location, navs, initTimers, pendingLoop, written, now,
                   applied>>

\* The page removes the secondary column
ColumnDisappears ==
    /\ column
    /\ column' = FALSE
    /\ ContentStep
    /\ UNCHANGED <<location, navs, initTimers, waiters, panel,
                   keyboardHandler, container, attached, pendingLoop, written,
                   now, gets, timeouts, applied, leaked, panelSegments>>

\* waitForElement's timeout rejects a pending promise; initializePanel's
\* catch only logs
WaitTimesOut ==
    /\ waiters > 0
    /\ waiters' = waiters - 1
    /\ ContentStep
    /\ UNCHANGED <<location, column, navs, initTimers, panel, keyboardHandler,
                   container, attached, pendingLoop, written, now, gets,
                   timeouts, applied, leaked, panelSegments>>

\* options page, playSelectedPhrase(): stores the pending loop of a phrase
playSelectedPhrase(phrase) ==
    /\ written < MaxEntries
    /\ written' = written + 1
    /\ pendingLoop' = Some([videoId |-> phrase.videoId,
                            startTime |-> phrase.startTime,
                            endTime |-> phrase.endTime,
                            timestamp |-> now,
                            n |-> written + 1])
    /\ ContentStep
    /\ UNCHANGED <<location, column, navs, initTimers, waiters, panel,
                   keyboardHandler, container, attached, now, gets, timeouts,
                   applied, leaked, panelSegments>>

\* time passes
ClockAdvances ==
    /\ \E t \in ClockReadings : t > now /\ now' = t
    /\ ContentStep
    /\ UNCHANGED <<location, column, navs, initTimers, waiters, panel,
                   keyboardHandler, container, attached, pendingLoop, written,
                   gets, timeouts, applied, leaked, panelSegments>>

\* the callback that checkPendingLoop hands to setTimeout: it keeps the
\* bounds of the entry read from storage
Scheduled(own, pending) ==
    [own |-> own, videoId |-> pending.videoId,
     startTime |-> pending.startTime, endTime |-> pending.endTime,
     n |-> pending.n]

\* checkPendingLoop after `await chrome.storage.local.get`: on a matching
\* video the setLoop is scheduled if the entry is young enough, and the
\* stored entry is removed
GetReturns ==
    /\ gets # <<>>
    /\ gets' = Tail(gets)
    /\ LET own == Head(gets).own
           result == Head(gets).result
       IN  IF result # Null /\ location # Null
              /\ Val(location) = Val(result).videoId
           THEN /\ timeouts' =
                    IF now - Val(result).timestamp < PendingMaxAge
                    THEN Append(timeouts, Scheduled(own, Val(result)))
                    ELSE timeouts
                /\ pendingLoop' = Null
           ELSE UNCHANGED <<pendingLoop, timeouts>>
    /\ ContentStep
    /\ UNCHANGED <<location, column, navs, initTimers, waiters, panel,
                   keyboardHandler, container, attached, written, now,
                   applied, leaked, panelSegments>>

\* The setTimeout callback of checkPendingLoop: setLoop on the controller
\* of the panel object that scheduled it
TimeoutFires ==
    /\ timeouts # <<>>
    /\ timeouts' = Tail(timeouts)
    /\ applied' = [applied EXCEPT ![Head(timeouts).n] = @ + 1]
    /\ LET start == Head(timeouts).startTime
           end == Head(timeouts).endTime
       IN  IF Head(timeouts).own
           THEN /\ setLoop(start, end)
                /\ UNCHANGED <<leaked, ret, ui>>
           ELSE /\ leaked' = leaked \cup {<<Min(start, end), Max(start, end)>>}
                /\ currentTime' = IF hasVideo THEN Min(start, end)
                                  ELSE currentTime
                /\ Env("page", <<>>)
                /\ UNCHANGED <<hasVideo, ret, ui>>
    /\ UNCHANGED <<location, column, navs, initTimers, waiters, panel,
                   keyboardHandler, container, attached, pendingLoop, written,
                   now, gets, panelSegments>>

\* the interval of a dropped panel's controller fires
LeakedTick ==
    /\ \E loop \in leaked :
           currentTime' = IF hasVideo /\ currentTime >= loop[2]
                          THEN loop[1] ELSE currentTime
    /\ Env("page", <<>>)
    /\ UNCHANGED <<hasVideo, ret, ui, contentVars, panelSegments>>

\* the state of the page when the content script has run: setup of the
\* navigation listeners and the first initializePanel(), before the column
\* is there
ContentInit ==
    /\ startTime = Null
    /\ endTime = Null
    /\ isActive = FALSE
    /\ intervalId = Null
    /\ onStateChange = TRUE
    /\ timers = {}
    /\ hasVideo = TRUE
    /\ currentTime = 0
    /\ op = Call("new", <<>>)
    /\ seeks = <<>>
    /\ notes = <<>>
    /\ ret = Null
    /\ panelSegments = <<>>
    /\ ui = Call("none", <<>>)
    /\ location \in Locations
    /\ column = FALSE
    /\ navs = 0
    /\ initTimers = 0
    /\ waiters = IF isVideoPage THEN 1 ELSE 0
    /\ panel = FALSE
    /\ keyboardHandler = FALSE
    /\ container = FALSE
    /\ attached = 0
    /\ pendingLoop = Null
    /\ written = 0
    /\ now = 0
    /\ gets = <<>>
    /\ timeouts = <<>>
    /\ applied = [n \in 1..MaxEntries |-> 0]
    /\ leaked = {}
    /\ NoBackground
    /\ NoDialog

ContentNext ==
    \/ \E to \in Locations : Navigate(to) /\ UNCHANGED <<backgroundVars, dialogVars>>
    \/ InitTimerFires /\ UNCHANGED <<backgroundVars, dialogVars>>
    \/ ColumnAppears /\ UNCHANGED <<backgroundVars, dialogVars>>
    \/ ColumnDisappears /\ UNCHANGED <<backgroundVars, dialogVars>>
    \/ WaitTimesOut /\ UNCHANGED <<backgroundVars, dialogVars>>
    \/ \E phrase \in SavedLoops :
           playSelectedPhrase(phrase) /\ UNCHANGED <<backgroundVars, dialogVars>>
    \/ ClockAdvances /\ UNCHANGED <<backgroundVars, dialogVars>>
    \/ GetReturns /\ UNCHANGED <<backgroundVars, dialogVars>>
    \/ TimeoutFires /\ UNCHANGED <<backgroundVars, dialogVars>>
    \/ Tick /\ UNCHANGED <<ret, panelSegments, ui, contentVars, backgroundVars, dialogVars>>
    \/ Play /\ UNCHANGED <<ret, panelSegments, ui, contentVars, backgroundVars, dialogVars>>
    \/ LeakedTick /\ UNCHANGED <<backgroundVars, dialogVars>>

ContentSpec == ContentInit /\ [][ContentNext]_vars

\* the worker has started: its availability check is running, the flag
\* still has its initial value
BackgroundInit ==
    /\ startTime = Null
    /\ endTime = Null
    /\ isActive = FALSE
    /\ intervalId = Null
    /\ onStateChange = TRUE
    /\ timers = {}
    /\ hasVideo = TRUE
    /\ currentTime = 0
    /\ op = Call("new", <<>>)
    /\ seeks = <<>>
    /\ notes = <<>>
    /\ ret = Null
    /\ panelSegments = <<>>
    /\ ui = Call("none", <<>>)
    /\ NoContentScript
    /\ NoDialog
    /\ dbGroups \in SUBSET StoredGroups
    /\ dbPhrases \in SUBSET StoredPhrases
    /\ \A p \in dbPhrases :
           p.groupId # Null => \E g \in dbGroups : g.id = Val(p.groupId)
    /\ dbWorks \in BOOLEAN
    /\ isDatabaseAvailable = TRUE
    /\ checking = TRUE
    /\ handlers = <<>>
    /\ answers = <<>>
    /\ sent = Null

BackgroundNext ==
    \/ /\ Len(handlers) < MaxMessages
       /\ \E message \in Messages : Receive(message) /\ UNCHANGED pageVars
    \/ \E m \in 1..Len(handlers) : Resume(m) /\ UNCHANGED pageVars
    \/ CheckCompletes /\ UNCHANGED pageVars

BackgroundSpec == BackgroundInit /\ [][BackgroundNext]_vars

----------------------------------------------------------------------------
\* SubtitlePanel (ui/panel.ts): the handlers that drive the loop controller.
\* Each handler is one step; op is the controller call it made last and
\* notes are all the snapshots it delivered.

\* LoopController.isSettingStart()
isSettingStart == startTime # Null /\ endTime = Null /\ ~isActive

\* length assumed for the last segment, which has no successor
AssumedDuration == 5

\* handleLoopClick: data-index is the position of the segment in the list
handleLoopClick(index) ==
    /\ ui' = Call("handleLoopClick", <<index>>)
    /\ UNCHANGED <<panelSegments, ret, contentVars, backgroundVars, dialogVars>>
    /\ IF index < 0 \/ index >= Len(panelSegments)
       THEN UNCHANGED <<ctl, hasVideo, currentTime, op, seeks, notes>>
       ELSE LET time == panelSegments[index + 1].startTime
                nextEnd == IF index + 2 <= Len(panelSegments)
                           THEN panelSegments[index + 2].startTime
                           ELSE time + AssumedDuration
            IN  IF ~isActive /\ startTime = Null
                THEN \* setStart(time); seekTo(time)
                     /\ op' = Call("setStart", <<time>>)
                     /\ startTime' = Some(time)
                     /\ UNCHANGED <<endTime, isActive, intervalId, timers,
                                    onStateChange, hasVideo>>
                     /\ notifyStateChange
                     /\ seeks' = <<>>
                     /\ currentTime' = IF hasVideo THEN time ELSE currentTime
                ELSE IF isSettingStart
                     THEN IF startTime = Some(time)
                          THEN setLoop(time, nextEnd)
                          ELSE setEnd(time)
                     ELSE \* clear(); setStart(time); seekTo(time)
                          /\ op' = Call("setStart", <<time>>)
                          /\ stopMonitoring
                          /\ startTime' = Some(time)
                          /\ endTime' = Null
                          /\ isActive' = FALSE
                          /\ UNCHANGED <<onStateChange, hasVideo>>
                          /\ notes' = IF onStateChange
                                      THEN <<[isActive |-> FALSE,
                                              startTime |-> Null,
                                              endTime |-> Null],
                                             getState'>>
                                      ELSE <<>>
                          /\ seeks' = <<>>
                          /\ currentTime' = IF hasVideo THEN time ELSE currentTime

\* updateLoopStatusDisplay: the clear button is enabled while a loop is
\* active or its start is chosen, and disabled otherwise
clearBtnEnabled ==
    \/ isActive /\ startTime # Null /\ endTime # Null
    \/ startTime # Null /\ endTime = Null

\* handleAction('clear-loop'): a disabled button receives no click
clearLoopClick ==
    /\ clearBtnEnabled
    /\ ui' = Call("clearLoopClick", <<>>)
    /\ UNCHANGED <<panelSegments, ret, contentVars, backgroundVars, dialogVars>>
    /\ clear

\* what the page does besides the panel's buttons: the interval fires, the
\* video plays on, the user seeks
PageEvent(name, A) ==
    /\ ui' = Call(name, <<>>)
    /\ UNCHANGED <<panelSegments, ret, contentVars, backgroundVars, dialogVars>>
    /\ A

\* the pages the panel loads its segments from: every segment element has a
\* text child
PanelPages == { e \in RawLists : \A i \in 1..Len(e) : e[i].textEl = Some(<<"a">>) }

PanelInit ==
    /\ startTime = Null
    /\ endTime = Null
    /\ isActive = FALSE
    /\ intervalId = Null
    /\ onStateChange = TRUE
    /\ timers = {}
    /\ hasVideo = TRUE
    /\ currentTime = 0
    /\ op = Call("new", <<>>)
    /\ seeks = <<>>
    /\ notes = <<>>
    /\ ret = Null
    /\ \E e \in PanelPages : panelSegments = extractTranscriptSegments(e)
    /\ ui = Call("none", <<>>)
    /\ NoContentScript
    /\ NoBackground
    /\ NoDialog

PanelNext ==
    \/ \E index \in 0..(MaxSegs - 1) : handleLoopClick(index)
    \/ clearLoopClick
    \/ PageEvent("tick", Tick)
    \/ PageEvent("play", Play)
    \/ \E p \in Times : PageEvent("seek", ExternalSeek(p))

PanelSpec == PanelInit /\ [][PanelNext]_vars

----------------------------------------------------------------------------
\* The save dialog (SaveDialog) and the panel's save handlers
\* (ui/panel.ts), together with the background worker that answers their
\* requests.  The dialog's overlay covers the page, so a row's save button
\* is clicked only while no dialog is shown.

\* handleSave calls that are explored
MaxSaves == 2

\* The panel's close callback of the dialog (onClose), called while the
\* row's save button has the classes btn
onClose(btn) ==
    /\ saveBtn' = IF "sl-btn-saved" \notin btn
                  THEN btn \ {"sl-btn-saving"}
                  ELSE btn
    /\ saveDialog' = Null

\* handleSaveClick: opens the dialog for the row at data-index
handleSaveClick(index) ==
    /\ saveDialog = Null
    /\ ui' = Call("handleSaveClick", <<index>>)
    /\ UNCHANGED <<ctl, timers, hasVideo, currentTime, op, seeks, notes, ret,
                   panelSegments, contentVars, backgroundVars, runs, inbox,
                   resets, savedPhrases>>
    /\ IF index < 0 \/ index >= Len(panelSegments)
       THEN UNCHANGED <<saveDialog, saveBtn, toast>>
       ELSE IF location = Null
       THEN /\ toast' = "no video info"
            /\ UNCHANGED <<saveDialog, saveBtn>>
       ELSE LET segment == panelSegments[index + 1]
                useLoop == isActive /\ startTime # Null /\ endTime # Null
            IN  /\ saveBtn' = saveBtn \cup {"sl-btn-saving"}
                /\ saveDialog' =
                       Some([videoId |-> Val(location),
                             startTime |-> IF useLoop THEN Val(startTime)
                                           ELSE segment.startTime,
                             endTime |-> IF useLoop THEN Val(endTime)
                                         ELSE IF index + 2 <= Len(panelSegments)
                                         THEN panelSegments[index + 2].startTime
                                         ELSE segment.startTime + AssumedDuration,
                             disabled |-> FALSE])
                /\ toast' = toast

\* the dialog's close button, a click on the overlay, or Escape
closeDialog ==
    /\ saveDialog # Null
    /\ ui' = Call("close", <<>>)
    /\ onClose(saveBtn)
    /\ UNCHANGED <<ctl, timers, hasVideo, currentTime, op, seeks, notes, ret,
                   panelSegments, contentVars, backgroundVars, toast, runs,
                   inbox, resets, savedPhrases>>

\* chrome.runtime.sendMessage(message) reaches the worker: its listener runs
\* up to the first await, and a response sent at once is on its way back
sendMessage(message) ==
    /\ Receive(message)
    /\ inbox' = IF answers'[Len(handlers')] = 1
                THEN Append(inbox, Val(sent'))
                ELSE inbox

\* SaveDialog.handleSave from the save button (not while it is disabled) or
\* from Ctrl+Enter: the button is disabled and onSave, the panel's
\* savePhrase, sends the request.  When sending throws, savePhrase catches
\* it, shows the failure and returns, so handleSave goes on to onClose
handleSave(byKey, throws) ==
    /\ saveDialog # Null
    /\ byKey \/ ~Val(saveDialog).disabled
    /\ Len(runs) < MaxSaves
    /\ ui' = Call("handleSave", <<byKey, throws>>)
    /\ UNCHANGED <<ctl, timers, hasVideo, currentTime, op, seeks, notes, ret,
                   panelSegments, contentVars, resets, savedPhrases>>
    /\ IF throws
       THEN /\ toast' = "save failed"
            /\ onClose(saveBtn \ {"sl-btn-saving"})
            /\ runs' = Append(runs, [at |-> "done", m |-> 0])
            /\ UNCHANGED <<backgroundVars, inbox>>
       ELSE /\ sendMessage([type |-> "SAVE_PHRASE",
                            payload |-> Defined(
                                [videoId |-> Val(saveDialog).videoId,
                                 groupId |-> Undefined])])
            /\ saveDialog' = Some([Val(saveDialog) EXCEPT !.disabled = TRUE])
            /\ runs' = Append(runs, [at |-> "save", m |-> Len(handlers) + 1])
            /\ UNCHANGED <<saveBtn, toast>>

\* The response at the head of the inbox reaches the content script and the
\* handleSave call that awaits it goes on.  After a save: savePhrase shows
\* the outcome; on success it starts the timer that resets the button and
\* calls loadSavedPhrases, whose request is sent or throws; on failure it
\* returns.  After a load: loadSavedPhrases keeps a non-empty result and
\* returns.  Whenever savePhrase has returned, handleSave calls onClose.
ResponseArrives(throws) ==
    /\ inbox # <<>>
    /\ LET response == Head(inbox)
           k == CHOOSE i \in 1..Len(runs) : runs[i].m = response.to
           saved == (saveBtn \ {"sl-btn-saving"}) \cup {"sl-btn-saved"}
       IN  /\ ui' = Call("response", <<response.to, throws>>)
           /\ UNCHANGED <<ctl, timers, hasVideo, currentTime, op, seeks,
                          notes, ret, panelSegments, contentVars>>
           /\ CASE runs[k].at = "save" /\ response.success /\ ~throws ->
                     /\ toast' = "saved"
                     /\ resets' = resets + 1
                     /\ saveBtn' = saved
                     /\ Receive([type |-> "GET_PHRASES",
                                 payload |-> Defined(
                                     [groupId |-> Undefined,
                                      videoId |-> Defined(Val(location)),
                                      limit |-> Undefined,
                                      offset |-> Undefined])])
                     /\ inbox' = Tail(inbox)
                     /\ runs' = [runs EXCEPT ![k] =
                                    [at |-> "load", m |-> Len(handlers) + 1]]
                     /\ UNCHANGED <<saveDialog, savedPhrases>>
                [] runs[k].at = "save" /\ response.success /\ throws ->
                     /\ toast' = "saved"
                     /\ resets' = resets + 1
                     /\ onClose(saved)
                     /\ inbox' = Tail(inbox)
                     /\ runs' = [runs EXCEPT ![k].at = "done"]
                     /\ UNCHANGED <<backgroundVars, savedPhrases>>
                [] runs[k].at = "save" /\ ~response.success ->
                     /\ ~throws
                     /\ toast' = "save failed"
                     /\ onClose(saveBtn \ {"sl-btn-saving"})
                     /\ inbox' = Tail(inbox)
                     /\ runs' = [runs EXCEPT ![k].at = "done"]
                     /\ UNCHANGED <<backgroundVars, resets, savedPhrases>>
                [] runs[k].at = "load" ->
                     /\ ~throws
                     /\ savedPhrases' =
                            IF response.success /\ response.data # <<>>
                            THEN { response.data[i].id :
                                       i \in 1..Len(response.data) }
                            ELSE savedPhrases
                     /\ onClose(saveBtn)
                     /\ inbox' = Tail(inbox)
                     /\ runs' = [runs EXCEPT ![k].at = "done"]
                     /\ UNCHANGED <<backgroundVars, toast, resets>>

\* the timer of savePhrase removes sl-btn-saved after 2 seconds
ResetFires ==
    /\ resets > 0
    /\ resets' = resets - 1
    /\ saveBtn' = saveBtn \ {"sl-btn-saved"}
    /\ ui' = Call("timer", <<>>)
    /\ UNCHANGED <<ctl, timers, hasVideo, currentTime, op, seeks, notes, ret,
                   panelSegments, contentVars, backgroundVars, saveDialog,
                   toast, runs, inbox, savedPhrases>>

\* the worker goes on with the handler of message m; its response, if it
\* sends one, is on its way back
WorkerResumes(m) ==
    /\ Resume(m)
    /\ inbox' = IF answers'[m] = 1 THEN Append(inbox, Val(sent')) ELSE inbox
    /\ UNCHANGED <<ctl, timers, hasVideo, currentTime, op, seeks, notes, ret,
                   panelSegments, ui, contentVars, saveDialog, saveBtn, toast,
                   runs, resets, savedPhrases>>

\* a video page with the panel showing two segments, and the worker started
DialogInit ==
    /\ startTime = Null
    /\ endTime = Null
    /\ isActive = FALSE
    /\ intervalId = Null
    /\ onStateChange = TRUE
    /\ timers = {}
    /\ hasVideo = TRUE
    /\ currentTime = 0
    /\ op = Call("new", <<>>)
    /\ seeks = <<>>
    /\ notes = <<>>
    /\ ret = Null
    /\ panelSegments = <<[index |-> 0, startTime |-> 1, text |-> <<"a">>],
                         [index |-> 1, startTime |-> 3, text |-> <<"b">>]>>
    /\ ui = Call("none", <<>>)
    /\ location \in {Null, Some("a")}
    /\ column = FALSE
    /\ navs = 0
    /\ initTimers = 0
    /\ waiters = 0
    /\ panel = FALSE
    /\ keyboardHandler = FALSE
    /\ container = FALSE
    /\ attached = 0
    /\ pendingLoop = Null
    /\ written = 0
    /\ now = 0
    /\ gets = <<>>
    /\ timeouts = <<>>
    /\ applied = [n \in 1..MaxEntries |-> 0]
    /\ leaked = {}
    /\ dbGroups = StoredGroups
    /\ dbPhrases \in {{}, StoredPhrases}
    /\ dbWorks \in BOOLEAN
    /\ isDatabaseAvailable = TRUE
    /\ checking = TRUE
    /\ handlers = <<>>
    /\ answers = <<>>
    /\ sent = Null
    /\ NoDialog

DialogNext ==
    \/ \E index \in 0..2 : handleSaveClick(index)
    \/ closeDialog
    \/ \E byKey, throws \in BOOLEAN : handleSave(byKey, throws)
    \/ \E throws \in BOOLEAN : ResponseArrives(throws)
    \/ ResetFires
    \/ \E m \in 1..Len(handlers) : WorkerResumes(m)
    \/ CheckCompletes /\ UNCHANGED pageVars

DialogSpec == DialogInit /\ [][DialogNext]_vars

----------------------------------------------------------------------------
Init ==
    /\ startTime = Null
    /\ endTime = Null
    /\ isActive = FALSE
    /\ intervalId = Null
    /\ onStateChange = TRUE
    /\ timers = {}
    /\ hasVideo = TRUE
    /\ currentTime = 0
    /\ op = Call("new", <<>>)
    /\ seeks = <<>>
    /\ notes = <<>>
    /\ ret = Null
    /\ panelSegments = <<>>
    /\ ui = Call("none", <<>>)
    /\ NoContentScript
    /\ NoBackground
    /\ NoDialog

Next ==
    \/ \E t \in Times : setStart(t) /\ UNCHANGED <<ret, panelSegments, ui, contentVars, backgroundVars, dialogVars>>
    \/ \E t \in Times : setEnd(t) /\ UNCHANGED <<ret, panelSegments, ui, contentVars, backgroundVars, dialogVars>>
    \/ \E a, b \in Times : setLoop(a, b) /\ UNCHANGED <<ret, panelSegments, ui, contentVars, backgroundVars, dialogVars>>
    \/ clear /\ UNCHANGED <<ret, panelSegments, ui, contentVars, backgroundVars, dialogVars>>
    \/ destroy /\ UNCHANGED <<ret, panelSegments, ui, contentVars, backgroundVars, dialogVars>>
    \/ Tick /\ UNCHANGED <<ret, panelSegments, ui, contentVars, backgroundVars, dialogVars>>
    \/ Play /\ UNCHANGED <<ret, panelSegments, ui, contentVars, backgroundVars, dialogVars>>
    \/ \E p \in Times : ExternalSeek(p) /\ UNCHANGED <<ret, panelSegments, ui, contentVars, backgroundVars, dialogVars>>
    \/ VideoRemoved /\ UNCHANGED <<ret, panelSegments, ui, contentVars, backgroundVars, dialogVars>>
    \/ VideoAdded /\ UNCHANGED <<ret, panelSegments, ui, contentVars, backgroundVars, dialogVars>>

Spec == Init /\ [][Next]_vars

\* The calls of the transcript functions that are explored
TranscriptCalls ==
    \/ \E s \in WholeSeconds : op = Call("roundTrip", <<s>>)
    \/ \E x \in FractionalSeconds : op = Call("formatTimestamp", <<x>>)
    \/ \E str \in TimestampTexts : op = Call("parseTimestamp", <<str>>)
    \/ \E e \in RawLists : op = Call("extractTranscriptSegments", <<e>>)
    \/ \E segs \in SegmentLists, t \in QueryTimes :
           op = Call("findSegmentAtTime", <<segs, t>>)
    \/ \E segs \in SegmentLists, a \in QueryTimes, b \in QueryTimes :
           op = Call("getTextForRange", <<segs, a, b>>)

TranscriptInit ==
    /\ startTime = Null
    /\ endTime = Null
    /\ isActive = FALSE
    /\ intervalId = Null
    /\ onStateChange = TRUE
    /\ timers = {}
    /\ hasVideo = TRUE
    /\ currentTime = 0
    /\ TranscriptCalls
    /\ seeks = <<>>
    /\ notes = <<>>
    /\ ret = Null
    /\ panelSegments = <<>>
    /\ ui = Call("none", <<>>)
    /\ NoContentScript
    /\ NoBackground
    /\ NoDialog

TranscriptNext ==
    \/ CallRoundTrip
    \/ CallFormatTimestamp
    \/ CallParseTimestamp
    \/ CallExtractTranscriptSegments
    \/ CallFindSegmentAtTime
    \/ CallGetTextForRange

TranscriptSpec == TranscriptInit /\ [][TranscriptNext]_vars

\* The window keeps firing an interval until it is cleared
FairSpec == Spec /\ WF_vars(Tick /\ UNCHANGED <<ret, panelSegments, ui, contentVars, backgroundVars, dialogVars>>)

----------------------------------------------------------------------------
\* Properties of the loop controller

Idle == [isActive |-> FALSE, startTime |-> Null, endTime |-> Null]

Mutators == {"setStart", "setEnd", "setLoop", "clear"}

\* C1: after setStart(t), whatever the state before, the controller is in
\* SettingStart: startTime = t, endTime = null, isActive = false and no
\* polling timer runs.
C1_SetStartEntersSettingStart ==
    op.name = "setStart" =>
        /\ startTime = Some(op.args[1])
        /\ endTime = Null
        /\ ~isActive
        /\ intervalId = Null
        /\ timers = {}

\* C2: whenever both bounds are set, startTime < endTime strictly.
C2_BoundsStrictlyOrdered ==
    (startTime # Null /\ endTime # Null) => Val(startTime) < Val(endTime)

\* C3: isActive holds exactly when both bounds are set, and endTime is never
\* set while startTime is null.
C3_ActiveIffBothBounds ==
    /\ isActive <=> (startTime # Null /\ endTime # Null)
    /\ ~(endTime # Null /\ startTime = Null)

\* C3 witness: setStart was called on an Active loop, which stays Active
\* with both bounds present.
C3_Witness ==
    /\ op.name = "setStart"
    /\ isActive
    /\ startTime # Null
    /\ endTime # Null

\* C4: a poll tick on an Active loop [s, e) seeks to exactly s when the
\* position read is >= e, issues no seek when it is < e, and leaves the
\* loop state and the timer as they were.
C4_TickSeeksBackAtEnd ==
    [][ (op'.name = "tick" /\ isActive) =>
            /\ getState' = getState
            /\ intervalId' = intervalId
            /\ timers' = timers
            /\ seeks' = IF getCurrentTime >= Val(endTime)
                        THEN <<Val(startTime)>>
                        ELSE <<>> ]_vars

\* C4 witness: a tick has just sent the playback of an Active loop with
\* start < end back to the start
C4_Witness ==
    /\ op.name = "tick"
    /\ isActive
    /\ Val(startTime) < Val(endTime)
    /\ seeks = <<Val(startTime)>>
    /\ hasVideo
    /\ currentTime = Val(startTime)

\* C5: after clear() the state is Idle and the timer is stopped; from then
\* on, until the next setEnd/setLoop, no step issues a seek or runs a timer,
\* wherever the playback position moves.
C5_ClearStopsLooping ==
    /\ [](op.name = "clear" =>
            /\ getState = Idle
            /\ intervalId = Null
            /\ timers = {}
            /\ seeks = <<>>)
    /\ [][ (endTime = Null /\ op'.name \notin {"setEnd", "setLoop"}) =>
            /\ endTime' = Null
            /\ timers' = {}
            /\ seeks' = <<>> ]_vars

\* C5 witness: clear() has been called and the video sits at the far end
C5_Witness ==
    /\ op.name = "clear"
    /\ hasVideo
    /\ currentTime = MaxTime

\* C6: setEnd(t) with startTime = a set leaves the loop Active over
\* [min(a,t), max(a,t)] with the timer engaged and one seek to min(a,t).
C6_SetEndNormalizes ==
    [][ (op'.name = "setEnd" /\ startTime # Null) =>
            LET a == Val(startTime)
                t == op'.args[1]
            IN  /\ startTime' = Some(Min(a, t))
                /\ endTime' = Some(Max(a, t))
                /\ isActive'
                /\ intervalId' # Null
                /\ Val(intervalId') \in timers'
                /\ seeks' = <<Min(a, t)>> ]_vars

\* C6 witness: setEnd(t) was called with t below the start, so t became the
\* start of an Active loop
C6_Witness ==
    /\ op.name = "setEnd"
    /\ isActive
    /\ startTime = Some(op.args[1])
    /\ Val(startTime) < Val(endTime)

\* C7: setEnd(t) while startTime is null changes nothing: no bound, no
\* timer, no seek, no notification.
C7_SetEndIgnoredWhenIdle ==
    [][ (op'.name = "setEnd" /\ startTime = Null) =>
            /\ getState' = getState
            /\ intervalId' = intervalId
            /\ timers' = timers
            /\ currentTime' = currentTime
            /\ seeks' = <<>>
            /\ notes' = <<>> ]_vars

\* C7 witness: setEnd was called on an Idle controller with a subscriber
C7_Witness ==
    /\ op.name = "setEnd"
    /\ getState = Idle
    /\ onStateChange

\* C8: setLoop(a, b) from any state leaves the loop Active over
\* [min(a,b), max(a,b)] with the timer engaged and one seek to min(a,b).
C8_SetLoopNormalizes ==
    op.name = "setLoop" =>
        LET a == op.args[1]
            b == op.args[2]
        IN  /\ startTime = Some(Min(a, b))
            /\ endTime = Some(Max(a, b))
            /\ isActive
            /\ intervalId # Null
            /\ Val(intervalId) \in timers
            /\ seeks = <<Min(a, b)>>

\* C8 witness: setLoop was called with its arguments in descending order
C8_Witness ==
    /\ op.name = "setLoop"
    /\ op.args[1] > op.args[2]
    /\ isActive

\* C9 as stated: every setStart/setEnd/setLoop/clear call delivers exactly
\* one notification, carrying the state at the return of the call; nothing
\* else notifies.
C9_EveryCallNotifiesOnce ==
    /\ (op.name \in Mutators /\ onStateChange) => notes = <<getState>>
    /\ op.name \notin Mutators => notes = <<>>

\* C9 amended: setStart, setLoop, clear, and setEnd when a start is set,
\* deliver exactly one notification carrying the state at the return of the
\* call; setEnd without a start delivers none; nothing else notifies.
C9_EffectiveCallNotifiesOnce ==
    /\ (op.name \in {"setStart", "setLoop", "clear"} /\ onStateChange) =>
            notes = <<getState>>
    /\ (op.name = "setEnd" /\ onStateChange) =>
            notes = IF startTime = Null THEN <<>> ELSE <<getState>>
    /\ (op.name \notin Mutators \/ ~onStateChange) => notes = <<>>

\* C9 witness: a setEnd call has delivered the Active snapshot
C9_Witness ==
    /\ op.name = "setEnd"
    /\ isActive
    /\ notes = <<getState>>

\* C10: with ticks firing, a position >= e on an Active loop does not stay
\* >= e forever: it is sent back below e unless the loop, the timer or the
\* video goes away.
C10_OvershootIsCorrected ==
    (isActive /\ timers # {} /\ hasVideo /\ currentTime >= Val(endTime))
        ~> (~isActive \/ timers = {} \/ ~hasVideo \/ currentTime < Val(endTime))

\* C11: before destroy, a polling interval runs exactly when both bounds are
\* set (Active); none runs in Idle or SettingStart.
C11_TimerIffActive ==
    onStateChange =>
        /\ (timers # {}) <=> (isActive /\ startTime # Null /\ endTime # Null)
        /\ (intervalId # Null) <=> (timers # {})
        /\ (endTime = Null) => (timers = {} /\ intervalId = Null)

\* C11 witness: setStart was called on an Active loop before destroy; the
\* loop is still Active and its interval still runs
C11_Witness ==
    /\ onStateChange
    /\ op.name = "setStart"
    /\ isActive
    /\ timers # {}

\* C12: destroy() stops the timer and detaches the callback; from then on
\* no operation delivers a notification, and a clear() after destroy leaves
\* the controller Idle with no timer.
C12_DestroyDetaches ==
    /\ [](op.name = "destroy" =>
            /\ timers = {}
            /\ intervalId = Null
            /\ ~onStateChange)
    /\ [](~onStateChange => notes = <<>>)
    /\ [][~onStateChange => ~onStateChange']_vars
    /\ []((op.name = "clear" /\ ~onStateChange) =>
            /\ getState = Idle
            /\ timers = {}
            /\ intervalId = Null)

\* C12 witness: clear() was called after destroy()
C12_Witness ==
    /\ op.name = "clear"
    /\ ~onStateChange
    /\ getState = Idle

\* C13: with no video element, setEnd (with a start set) and setLoop still
\* end Active over the normalized bounds with the timer engaged and the
\* notification delivered, after exactly one seekTo call that moves nothing;
\* a tick then reads position 0 and seeks only when endTime <= 0.
C13_SeekFailureIsIgnored ==
    /\ [][ (~hasVideo /\ op'.name = "setLoop") =>
            /\ startTime' = Some(Min(op'.args[1], op'.args[2]))
            /\ endTime' = Some(Max(op'.args[1], op'.args[2]))
            /\ isActive'
            /\ timers' # {}
            /\ (onStateChange => notes' = <<getState'>>)
            /\ seeks' = <<Val(startTime')>>
            /\ currentTime' = currentTime ]_vars
    /\ [][ (~hasVideo /\ op'.name = "setEnd" /\ startTime # Null) =>
            /\ startTime' = Some(Min(Val(startTime), op'.args[1]))
            /\ endTime' = Some(Max(Val(startTime), op'.args[1]))
            /\ isActive'
            /\ timers' # {}
            /\ (onStateChange => notes' = <<getState'>>)
            /\ seeks' = <<Val(startTime')>>
            /\ currentTime' = currentTime ]_vars
    /\ [][ (~hasVideo /\ op'.name = "tick" /\ isActive) =>
            /\ getCurrentTime = 0
            /\ seeks' = IF Val(endTime) <= 0 THEN <<Val(startTime)>> ELSE <<>>
            /\ getState' = getState ]_vars

\* C13 witness: setLoop ran without a video element: the loop is Active, the
\* seek to its start was issued and the position did not move
C13_Witness ==
    /\ ~hasVideo
    /\ op.name = "setLoop"
    /\ isActive
    /\ timers # {}
    /\ Val(startTime) > 0
    /\ seeks = <<Val(startTime)>>
    /\ currentTime = 0

----------------------------------------------------------------------------
\* Properties of the transcript functions

\* C17: parseTimestamp(formatTimestamp(s)) = s for every whole number of
\* seconds s >= 0.
C17_RoundTrip ==
    Returned("roundTrip") => Val(ret) = op.args[1]

\* C17 witness: the round trip was taken through the hour form H:MM:SS
C17_Witness ==
    /\ Returned("roundTrip")
    /\ op.args[1] >= 3600
    /\ Val(ret) = op.args[1]

\* Reading a rendered field back: all characters are digits, the value is read
\* from the right, and a leading field carries no padding zero
AllDigits(str) == Len(str) >= 1 /\ \A i \in 1..Len(str) : IsDigit(str[i])

RECURSIVE DecValue(_)
DecValue(str) ==
    IF str = <<>> THEN 0
    ELSE 10 * DecValue(SubSeq(str, 1, Len(str) - 1)) + DigitVal(str[Len(str)])

LeadingField(str) == AllDigits(str) /\ (Len(str) = 1 \/ str[1] # "0")

PaddedField(str) == Len(str) = 2 /\ AllDigits(str) /\ DecValue(str) \in 0..59

\* C19: formatTimestamp(x), x >= 0, renders the whole seconds below x as
\* M:SS when x < 3600 and as H:MM:SS when x >= 3600; SS (and MM in the hour
\* form) are two digits in 00..59 and the leading field is not zero-padded.
C19_FormatShape ==
    Returned("formatTimestamp") =>
        LET x == op.args[1]
            r == Val(ret)
            n == Len(r)
            Floors(total) == total * Res <= x /\ x < (total + 1) * Res
        IN  IF x < 3600 * Res
            THEN /\ n >= 4
                 /\ r[n - 2] = ":"
                 /\ LeadingField(SubSeq(r, 1, n - 3))
                 /\ PaddedField(SubSeq(r, n - 1, n))
                 /\ Floors(DecValue(SubSeq(r, 1, n - 3)) * 60
                            + DecValue(SubSeq(r, n - 1, n)))
            ELSE /\ n >= 7
                 /\ r[n - 2] = ":"
                 /\ r[n - 5] = ":"
                 /\ LeadingField(SubSeq(r, 1, n - 6))
                 /\ DecValue(SubSeq(r, 1, n - 6)) >= 1
                 /\ PaddedField(SubSeq(r, n - 4, n - 3))
                 /\ PaddedField(SubSeq(r, n - 1, n))
                 /\ Floors(DecValue(SubSeq(r, 1, n - 6)) * 3600
                            + DecValue(SubSeq(r, n - 4, n - 3)) * 60
                            + DecValue(SubSeq(r, n - 1, n)))

\* C19 witness: 3722 seconds and a fraction were rendered as 1:02:02
C19_Witness ==
    /\ Returned("formatTimestamp")
    /\ op.args[1] = 3722 * Res + 1
    /\ Val(ret) = <<"1", ":", "0", "2", ":", "0", "2">>

\* a component that reads as a non-negative integer
NonNegativeField(str) == parseInt(str) # Null /\ Val(parseInt(str)) >= 0

\* C18: parseTimestamp gives 60*M + S for two components and
\* 3600*H + 60*M + S for three components that are non-negative integers,
\* gives 0 when a component is not a non-negative integer, and is never
\* negative.
C18_ParseTimestamp ==
    Returned("parseTimestamp") =>
        LET parts == split(trim(op.args[1]))
            n == Len(parts)
            F(i) == Val(parseInt(parts[i]))
            wellFormed == \A i \in 1..n : NonNegativeField(parts[i])
        IN  /\ Val(ret) >= 0
            /\ (wellFormed /\ n = 2) => Val(ret) = 60 * F(1) + F(2)
            /\ (wellFormed /\ n = 3) =>
                    Val(ret) = 3600 * F(1) + 60 * F(2) + F(3)
            /\ ~wellFormed => Val(ret) = 0

Ascending(segs) ==
    \A i, j \in 1..Len(segs) : i < j => segs[i].startTime <= segs[j].startTime

\* C15: on a list in ascending startTime order, findSegmentAtTime(segments, t)
\* returns the first segment s_i in index order with
\* s_i.startTime <= t < s_{i+1}.startTime (no upper limit for the last one),
\* and null exactly when the list is empty or t is below the first start.
C15_FindSegmentAtTime ==
    (Returned("findSegmentAtTime") /\ Ascending(op.args[1])) =>
        LET segs == op.args[1]
            t == op.args[2]
            n == Len(segs)
            found == Val(ret)
            Covers(i) == /\ segs[i].startTime <= t
                         /\ (i = n \/ t < segs[i + 1].startTime)
        IN  /\ (found = Null) <=> (n = 0 \/ t < segs[1].startTime)
            /\ found # Null =>
                 \E i \in 1..n : /\ Covers(i)
                                 /\ \A j \in 1..(i - 1) : ~Covers(j)
                                 /\ Val(found) = segs[i]

\* C15 witness: on an ascending list of several segments the query time lies
\* at or above the last start, and the last segment was returned
C15_Witness ==
    /\ Returned("findSegmentAtTime")
    /\ Ascending(op.args[1])
    /\ Len(op.args[1]) >= 2
    /\ op.args[1][1].startTime < op.args[1][Len(op.args[1])].startTime
    /\ op.args[2] > op.args[1][Len(op.args[1])].startTime
    /\ Val(ret) = Some(op.args[1][Len(op.args[1])])

\* the texts of the segments that start in [start, end), taken in list order
\* with one space between neighbours, built from the left
RECURSIVE RangeText(_, _, _, _, _, _)
RangeText(segs, start, end, i, acc, any) ==
    IF i > Len(segs) THEN acc
    ELSE IF start <= segs[i].startTime /\ segs[i].startTime < end
         THEN RangeText(segs, start, end, i + 1,
                        IF any THEN acc \o <<" ">> \o segs[i].text
                               ELSE segs[i].text,
                        TRUE)
         ELSE RangeText(segs, start, end, i + 1, acc, any)

\* C16: getTextForRange(segments, start, end) is the texts of exactly the
\* segments with start <= startTime < end, in list order, joined by one
\* space, and the empty string when there is none.
C16_GetTextForRange ==
    Returned("getTextForRange") =>
        LET segs == op.args[1]
            start == op.args[2]
            end == op.args[3]
        IN  /\ Val(ret) = RangeText(segs, start, end, 1, <<>>, FALSE)
            /\ (\A i \in 1..Len(segs) :
                    ~(start <= segs[i].startTime /\ segs[i].startTime < end))
                 => Val(ret) = <<>>

\* C16 witness: one segment starts at start and is included, another starts
\* at end and is left out
C16_Witness ==
    /\ Returned("getTextForRange")
    /\ op.args[2] < op.args[3]
    /\ Len(op.args[1]) = 2
    /\ op.args[1][1].startTime = op.args[2]
    /\ op.args[1][1].text = <<"a">>
    /\ op.args[1][2].startTime = op.args[3]
    /\ op.args[1][2].text = <<"a">>
    /\ Val(ret) = <<"a">>

\* C20: the segments returned by extractTranscriptSegments ascend in
\* startTime along the list, and no two of them share an index.
C20_ExtractedAscending ==
    Returned("extractTranscriptSegments") =>
        LET segs == Val(ret)
        IN  /\ Ascending(segs)
            /\ \A i, j \in 1..Len(segs) :
                   i # j => segs[i].index # segs[j].index

----------------------------------------------------------------------------
\* Properties of the panel

\* C14: with no loop set, a click on the loop button of a segment starting at
\* t1 gives SettingStart at t1; a click right after it on a different segment
\* starting at t2 gives an Active loop over [min(t1,t2), max(t1,t2)] with the
\* timer engaged; a tick at or past the end seeks to the start; the clear
\* button stops the loop.
C14_TwoClicksSetLoop ==
    /\ [][ (ui'.name = "handleLoopClick" /\ ui'.args[1] < Len(panelSegments)
              /\ getState = Idle) =>
            /\ startTime' = Some(panelSegments[ui'.args[1] + 1].startTime)
            /\ endTime' = Null
            /\ ~isActive' ]_vars
    /\ [][ (ui'.name = "handleLoopClick" /\ ui'.args[1] < Len(panelSegments)
              /\ ui.name = "handleLoopClick" /\ ui.args[1] < Len(panelSegments)
              /\ ui'.args[1] # ui.args[1]
              /\ isSettingStart
              /\ startTime = Some(panelSegments[ui.args[1] + 1].startTime)) =>
            LET t1 == panelSegments[ui.args[1] + 1].startTime
                t2 == panelSegments[ui'.args[1] + 1].startTime
            IN  /\ startTime' = Some(Min(t1, t2))
                /\ endTime' = Some(Max(t1, t2))
                /\ isActive'
                /\ timers' # {} ]_vars
    /\ [][ (ui'.name = "tick" /\ isActive /\ getCurrentTime >= Val(endTime)) =>
            seeks' = <<Val(startTime)>> ]_vars
    /\ [][ ui'.name = "clearLoopClick" =>
            (getState' = Idle /\ timers' = {}) ]_vars

----------------------------------------------------------------------------
\* Properties of the controller, continued

\* C30: at most one polling interval of the controller runs at any time;
\* setEnd or setLoop called while one runs keeps that very interval, and a
\* single clear() or destroy() leaves none running.
C30_SinglePollingInterval ==
    /\ [](Cardinality(timers) <= 1)
    /\ [][ (op'.name \in {"setEnd", "setLoop"} /\ timers # {}) =>
            (timers' = timers /\ intervalId' = intervalId) ]_vars
    /\ [](op.name \in {"clear", "destroy"} => timers = {})

\* C30 witness: setLoop has run on a controller that is polling; one
\* interval runs and the controller holds its id
C30_Witness ==
    /\ op.name = "setLoop"
    /\ isActive
    /\ Cardinality(timers) = 1
    /\ intervalId # Null
    /\ Val(intervalId) \in timers

----------------------------------------------------------------------------
\* Properties of the transcript helpers, continued

\* C29: every segment returned by extractTranscriptSegments has index equal
\* to its (0-based) position in the returned array, also when malformed
\* elements were skipped.
C29_IndexIsPosition ==
    Returned("extractTranscriptSegments") =>
        \A i \in 1..Len(Val(ret)) : Val(ret)[i].index = i - 1

----------------------------------------------------------------------------
\* Properties of the panel, continued

\* the end of the single-segment loop of the segment at position index: the
\* next segment's start time, or AssumedDuration seconds after its own
SingleSegmentEnd(index) ==
    IF index + 2 <= Len(panelSegments)
    THEN panelSegments[index + 2].startTime
    ELSE panelSegments[index + 1].startTime + AssumedDuration

\* C26: in SettingStart at t, a click on the loop button of a segment whose
\* start time is t activates the loop from t to e, where e is the next
\* segment's start time, or t + 5 on the last segment; a click on a loop
\* button while a loop is Active leaves SettingStart at the clicked
\* segment's start time, with no timer.
C26_SingleSegmentLoop ==
    /\ [][ (ui'.name = "handleLoopClick" /\ ui'.args[1] < Len(panelSegments)
              /\ isSettingStart
              /\ startTime = Some(panelSegments[ui'.args[1] + 1].startTime)) =>
            /\ startTime' = startTime
            /\ endTime' = Some(SingleSegmentEnd(ui'.args[1]))
            /\ isActive'
            /\ timers' # {} ]_vars
    /\ [][ (ui'.name = "handleLoopClick" /\ ui'.args[1] < Len(panelSegments)
              /\ isActive) =>
            /\ startTime' = Some(panelSegments[ui'.args[1] + 1].startTime)
            /\ endTime' = Null
            /\ ~isActive'
            /\ timers' = {} ]_vars

----------------------------------------------------------------------------
\* Properties of the content script and the panel's life cycle

\* the entry that the checkPendingLoop run resumed next has read
Read == Head(gets).result

\* the current video is the one the entry read was stored for
ReadMatches ==
    Read # Null /\ location # Null /\ Val(location) = Val(Read).videoId

\* the step resumes a checkPendingLoop run
Resumes == gets # <<>> /\ gets' = Tail(gets)

\* C25: an entry written by the options page is applied with setLoop at
\* most once; a run schedules the setLoop only if the current video is the
\* entry's video and the entry is younger than 5 minutes; whenever the video
\* matches, the stored entry is removed, also when it is too old; when the
\* video does not match, storage is left as it is and no loop is scheduled.
C25_PendingLoopAppliedOnce ==
    /\ [](\A n \in 1..MaxEntries : applied[n] <= 1)
    /\ [][ (Resumes /\ Len(timeouts') > Len(timeouts)) =>
            (ReadMatches /\ now - Val(Read).timestamp < PendingMaxAge) ]_vars
    /\ [][ (Resumes /\ ReadMatches) => pendingLoop' = Null ]_vars
    /\ [][ (Resumes /\ Read # Null /\ ~ReadMatches) =>
            (pendingLoop' = pendingLoop /\ timeouts' = timeouts) ]_vars

\* SubtitlePanel.destroy() has run on the panel object constructed last and
\* the content script has dropped the object
PanelDestroyed == ~panel /\ ~onStateChange

\* C27: after SubtitlePanel.destroy() the panel's LoopController has no
\* polling timer engaged and issues no further seek, however destroy() is
\* ordered against the delayed setLoop of checkPendingLoop.
C27_DestroyedPanelStaysQuiet ==
    /\ [](PanelDestroyed => (timers = {} /\ intervalId = Null))
    /\ [][ PanelDestroyed => seeks' = <<>> ]_vars

\* every pending callback of the content script has run
Quiescent ==
    /\ initTimers = 0
    /\ waiters = 0
    /\ gets = <<>>
    /\ timeouts = <<>>

\* C28: once all pending callbacks have run, a panel and a keyboard handler
\* exist only if the current page is a video page; at most one panel
\* container is attached to the page at any time.
C28_PanelOnlyOnVideoPage ==
    /\ Quiescent => ((panel \/ keyboardHandler) => isVideoPage)
    /\ attached <= 1


\* the elements of a sequence
Elements(seq) == { seq[i] : i \in 1..Len(seq) }

\* the step is the return of the GET_PHRASES handler of message m with a
\* result, for a request that only says which group it wants
ReturnsPhrases(m, groupId) ==
    /\ m <= Len(handlers)
    /\ handlers[m].at = "phrases.sortBy"
    /\ handlers[m].payload # Undefined
    /\ Val(handlers[m].payload) =
           [groupId |-> groupId, videoId |-> Undefined,
            limit |-> Undefined, offset |-> Undefined]
    /\ handlers'[m].at = "done"
    /\ Val(sent').success

\* C21: getPhrases called with groupId = null returns the phrases of all
\* groups, and called with groupId undefined returns only the ungrouped
\* phrases, those whose groupId is null.
C21_GroupIdUndefinedIsUngrouped ==
    [][\A m \in 1..MaxMessages :
          /\ ReturnsPhrases(m, Defined(Null))
                 => Elements(Val(sent').data) = dbPhrases
          /\ ReturnsPhrases(m, Undefined)
                 => Elements(Val(sent').data) =
                        { p \in dbPhrases : p.groupId = Null }]_vars

\* the step is the successful return of deleteGroup(id) in the handler of
\* message m
DeleteGroupCompletes(m, id) ==
    /\ m <= Len(handlers)
    /\ handlers[m].type = "DELETE_GROUP"
    /\ Val(handlers[m].payload).id = id
    /\ handlers[m].at = "transaction"
    /\ handlers'[m].at = "done"
    /\ Val(sent').success

\* C22: when deleteGroup(id) completes, the group id is absent from the
\* store and no phrase has groupId = id, whatever savePhrase and
\* updatePhrase requests were handled while it ran.
C22_DeletedGroupHasNoPhrases ==
    [][\A m \in 1..MaxMessages : \A id \in {1} :
          DeleteGroupCompletes(m, id)
              => /\ \A g \in dbGroups' : g.id # id
                 /\ \A p \in dbPhrases' : p.groupId # Some(id)]_vars

\* the step sends the response to message m
Answered(m) ==
    /\ m <= Len(handlers')
    /\ handlers'[m].at = "done"
    /\ m <= Len(handlers) => handlers[m].at # "done"

\* the step ends the handling of message m with a failure: the type is
\* unknown, savePhrase found the database flagged unavailable, or a database
\* request was rejected
Fails(m) ==
    /\ Answered(m)
    /\ IF m <= Len(handlers)
       THEN ~dbWorks
       ELSE \/ Val(sent').type \notin MessageTypes
            \/ Val(sent').type = "SAVE_PHRASE" /\ ~isDatabaseAvailable

\* C23: every message gets exactly one response: none while its handler
\* runs, one when it has returned, never a second; a message of unknown type
\* and every failure inside a handler, savePhrase on an unavailable database
\* included, is answered with success false and an error; a message without
\* a response has a handler that can go on, whatever the database does.
C23_ExactlyOneResponse ==
    /\ [][\A m \in 1..MaxMessages :
             m <= Len(handlers')
                 => /\ answers'[m] = IF handlers'[m].at = "done" THEN 1 ELSE 0
                    /\ Answered(m) => sent' # Null /\ Val(sent').to = m
                    /\ Fails(m) => /\ ~Val(sent').success
                                   /\ Val(sent').error # Undefined]_vars
    /\ [](\A m \in 1..MaxMessages :
             (m <= Len(handlers) /\ answers[m] = 0)
                 => ENABLED (Resume(m) /\ UNCHANGED pageVars))

\* two messages have one response each, the second a save that was refused
\* because the database is flagged unavailable
C23_Witness ==
    /\ Len(handlers) = 2
    /\ answers = <<1, 1>>
    /\ ~isDatabaseAvailable
    /\ sent # Null
    /\ Val(sent).type = "SAVE_PHRASE"
    /\ ~Val(sent).success
    /\ Val(sent).to = 2



\* the step is a handleSave call whose request cannot be sent
SendThrows ==
    /\ ui' = Call("handleSave", <<TRUE, TRUE>>)
          \/ ui' = Call("handleSave", <<FALSE, TRUE>>)
    /\ runs' # runs

\* the step delivers the response to the save request of a handleSave call
SaveAnswered ==
    /\ inbox # <<>>
    /\ inbox' = Tail(inbox)
    /\ \E k \in 1..Len(runs) :
           runs[k].m = Head(inbox).to /\ runs[k].at = "save"

\* the step in which the save of a handleSave call fails
SaveFails == SendThrows \/ (SaveAnswered /\ ~Head(inbox).success)

\* the step in which handleSave goes on after onSave and closes the dialog
ClosedByHandleSave ==
    /\ saveDialog # Null
    /\ saveDialog' = Null
    /\ runs' # runs

\* the handleSave call that goes on in this step had its phrase saved
SaveSucceeded ==
    /\ inbox # <<>>
    /\ inbox' = Tail(inbox)
    /\ \E k \in 1..Len(runs) :
           /\ runs[k].m = Head(inbox).to
           /\ runs[k].at = "load" \/ Head(inbox).success

\* C24: when saving from the dialog fails, by a response with success false
\* or by a send that throws, the dialog stays open and its save button is
\* enabled again; handleSave closes the dialog only after a successful save.
C24_FailedSaveKeepsDialogOpen ==
    [][/\ (SaveFails /\ saveDialog # Null)
             => saveDialog' # Null /\ ~Val(saveDialog').disabled
       /\ ClosedByHandleSave => SaveSucceeded]_vars


====
